---- MODULE Spec2Model ----
(***************************************************************************)
(* Model of the geo-track server core:                                     *)
(*   - crates/server/src/cq.rs: the Address/Mailbox request-reply actor    *)
(*     built on a bounded mpsc channel and one oneshot channel per call;   *)
(*   - crates/server/src/bin/server.rs: the task that owns the Mailbox and *)
(*     calls next() in a loop;                                             *)
(*   - crates/server/src/storage/memory.rs: the in-memory storage engine.  *)
(* The tokio channels are modelled by their documented contracts: a send   *)
(* on a full channel waits in FIFO order for a permit, a send on a channel *)
(* whose receiver is gone fails, recv returns None once every sender is    *)
(* gone and the buffer is empty, a oneshot receiver sees an error when its *)
(* sender is dropped unsent, a oneshot send fails when the receiver is     *)
(* gone.                                                                   *)
(***************************************************************************)
EXTENDS Naturals, Integers, Sequences, FiniteSets, TLC

\* ------------------------------------------------------------------ bounds
\* calls made over a run, and the largest capacity bounded() is given
MaxCalls == 3
MaxCapacity == 2
\* persist_status calls made over a run of the storage engine
MaxPersists == 3
\* frames a peer delivers on one stream connection
MaxFrames == 3
\* datagrams the datagram listener receives over a run
MaxDatagrams == 3
\* bytes a peer sends on the stream given to the decoder
MaxBytes == 6

\* the tasks that may hold an Address, and the payloads they submit
Callers == {1, 2}
Payloads == {1, 2}
CallIds == 1..MaxCalls

\* the records given to the storage engine: keys and optional-field shapes
Sources == {1, 2}
Timestamps == {10, 20, 30}
None == 0
Shapes == {<<None, None, None>>, <<1, 1, 1>>, <<2, 2, 2>>,
           <<1, None, None>>, <<None, 2, None>>, <<None, None, 1>>}
DupeStrategies == {"Drop", "Merge", "Overwrite"}

\* the instants a queried range of timestamps may start or end at
Points == {10, 15, 30}

\* the stream connections peers may open
Conns == {1, 2}

\* the sizes in bytes of the datagrams peers send and of the Status
\* encodings they start with
DatagramLens == {100, 128, 129}

\* ------------------------------------------------------------------- state
VARIABLES
    capacity,   \* the bound given to bounded()
    alive,      \* callers that hold a live Address clone
    pc,         \* position of each caller inside command()/query()
    cur,        \* id of the call each caller is in (0 when idle)
    outcome,    \* what the caller's last call returned
    nextId,     \* number of calls started so far, plus one
    reqs,       \* the calls in progress: id -> [caller, kind, payload]
    oneshot,    \* the reply channel of each call: id -> [st, val, from]
    queue,      \* the mpsc buffer: envelopes sent and not yet received
    permits,    \* free slots of the mpsc channel
    waiters,    \* callers suspended in send(), in FIFO order
    mbox,       \* "alive" while the Mailbox exists, "dropped" afterwards
    inflight,   \* envelopes whose handler has been invoked and not finished
    lastNext,   \* what the last completed Mailbox::next returned
    owned,      \* state owned by the handlers: the command payloads applied
    arrived,    \* ids in the order their envelopes entered the mpsc buffer
    started,    \* ids in the order their handlers were invoked
    ncalls,     \* id -> number of handler invocations
    nsends,     \* id -> number of tx.send calls made for that envelope
    finished,   \* ids whose Mailbox::next call has returned
    unavailable, \* ids whose Mailbox::next call returned SenderUnavailable
    dupe_strategy, \* MemoryStorage.dupe_strategy
    statuses,   \* MemoryStorage.statuses: source -> (timestamp -> Status)
    persisted,  \* <<source, timestamp>> -> the records persisted there, in order
    npersist,   \* number of persist_status calls made
    returned,   \* what the last call on the MemoryStorage returned
    merge_self, \* Status::merge: the base value (self)
    merge_rhs,  \* Status::merge: the incoming value (rhs)
    merge_out,  \* <<self.merge(rhs), rhs.merge(self)>> once computed
    listener,   \* the accept loop of listen_tcp
    conn,       \* connection -> position of its process_status_stream task
    sent,       \* connection -> the frames its peer delivered, in order
    nread,      \* connection -> number of frames the reader has taken
    forwarded,  \* connection -> indexes of the frames handed to handler.run
    nreturned,  \* connection -> number of handler.run calls that returned
    eof,        \* connection -> the peer has closed its sending side
    udp,        \* position of the receive loop of listen_udp
    dgrams,     \* the datagrams recv_from was called for, in order
    udp_forwarded, \* indexes of the datagrams handed to handler.run
    udp_results, \* what the handler.run calls returned, in order
    wire,       \* the bytes a peer sends on a stream, all of them
    nfed,       \* how many of them have been read into the buffer
    src,        \* the BytesMut buffer CborDecoder::decode works on
    items,      \* the items decode has returned, in order
    dec,        \* "waiting" for bytes, "readable", or "failed"
    maxchunk,   \* the largest number of bytes read into the buffer at once
    http_code   \* the StatusCode submit_status answered with, per call

vars == <<capacity, alive, pc, cur, outcome, nextId, reqs, oneshot, queue, permits,
          waiters, mbox, inflight, lastNext, owned, arrived, started,
          ncalls, nsends, finished, unavailable,
          dupe_strategy, statuses, persisted, npersist, returned,
          merge_self, merge_rhs, merge_out,
          listener, conn, sent, nread, forwarded, nreturned, eof,
          udp, dgrams, udp_forwarded, udp_results,
          wire, nfed, src, items, dec, maxchunk, http_code>>

storageVars == <<dupe_strategy, statuses, persisted, npersist, returned>>
mergeVars == <<merge_self, merge_rhs, merge_out>>
ingestVars == <<listener, conn, sent, nread, forwarded, nreturned, eof>>
udpVars == <<udp, dgrams, udp_forwarded, udp_results>>
codecVars == <<wire, nfed, src, items, dec, maxchunk>>
httpVars == <<http_code>>
extVars == <<udpVars, codecVars, httpVars>>
cqVars == <<capacity, alive, pc, cur, outcome, nextId, reqs, oneshot, queue,
            permits, waiters, mbox, inflight, lastNext, owned, arrived,
            started, ncalls, nsends, finished, unavailable>>
callerVars == <<capacity, alive, pc, cur, outcome, nextId, reqs>>
ghostVars == <<arrived, started, ncalls, nsends, finished, unavailable>>

NoVal == <<"none", 0>>
NoOutcome == [tag |-> "None", id |-> 0, val |-> NoVal, from |-> 0, want |-> NoVal]
NoChannel == [st |-> "none", val |-> NoVal, from |-> 0]
Gone == [st |-> "dropped", val |-> NoVal, from |-> 0]
NoReq == [caller |-> 0, kind |-> "none", payload |-> 0]

\* ------------------------------------------------------------ cq.rs: types
\* CqrsError conversions
FromSendErrorUnavailable == "SenderUnavailable"
FromSendError == "ChannelClosed"
FromRecvErrorUnavailable == "SenderUnavailable"
FromRecvError == "ChannelClosed"
MapSendErr == "SenderUnavailable"

\* Envelope::Command / Envelope::Query: payload plus the oneshot sender
Envelope(k, p, t) == [kind |-> k, payload |-> p, tx |-> t]

\* the oneshot sender a handler's response is sent on
ReplyTxLatest(env) == nextId - 1
ReplyTx(env) == env.tx

\* the handlers given to bounded(): their response for a payload
on_command(p) == <<"Command", p>>
on_query(p) == <<"Query", p>>
Respond(env) == IF env.kind = "Command" THEN on_command(env.payload)
                ELSE on_query(env.payload)
ApplyUnlessAbandoned(env, st) ==
    IF env.kind = "Command" /\ oneshot[env.tx].st = "open" THEN st \cup {env.payload} ELSE st
Apply(env, st) == IF env.kind = "Command" THEN st \cup {env.payload} ELSE st

\* ----------------------------------------------------------- mpsc helpers
HasCapacityAlways == TRUE
HasCapacity == permits > 0
\* the envelope rx.recv() yields and what stays in the buffer
RecvIndexCommandsFirst(q) ==
    IF \E i \in 1..Len(q) : q[i].kind = "Command"
    THEN CHOOSE i \in 1..Len(q) :
            /\ q[i].kind = "Command"
            /\ \A j \in 1..(i - 1) : q[j].kind /= "Command"
    ELSE 1
RecvIndex(q) == 1
RemoveAt(s, i) == SubSeq(s, 1, i - 1) \o SubSeq(s, i + 1, Len(s))
RemainingNone(q) == <<>>
Remaining(q) == RemoveAt(q, RecvIndex(q))
\* rx.recv() yields None: every Sender is gone and the buffer is empty
RecvNoneWhenEmpty == queue = <<>>
RecvNone == alive = {} /\ queue = <<>>
\* next() takes &mut self and awaits the handler before it returns
NextReadyAlways == TRUE
NextReady == inflight = {}
\* the owner's loop goes on whatever next() returned
LoopAfterBreak(result) == IF result = "Ok" THEN "alive" ELSE "dropped"
LoopAfter(result) == "alive"

ReleasePermitNoWake ==
    /\ permits' = permits + 1
    /\ UNCHANGED <<pc, waiters>>
\* a slot freed by recv goes to the longest-waiting sender, if any
ReleasePermit ==
    IF waiters /= <<>>
    THEN /\ pc' = [pc EXCEPT ![Head(waiters)] = "permitted"]
         /\ waiters' = Tail(waiters)
         /\ UNCHANGED permits
    ELSE /\ permits' = permits + 1
         /\ UNCHANGED <<pc, waiters>>

Without(s, c) == SelectSeq(s, LAMBDA x : x /= c)

\* -------------------------------------------------------------------- Init
\* bounded(bound, on_command, on_query): one Address, an empty Mailbox
bounded(bound) ==
    /\ capacity = bound
    /\ alive = {1}
    /\ pc = [c \in Callers |-> "idle"]
    /\ cur = [c \in Callers |-> 0]
    /\ outcome = [c \in Callers |-> NoOutcome]
    /\ nextId = 1
    /\ reqs = [i \in CallIds |-> NoReq]
    /\ oneshot = [i \in CallIds |-> NoChannel]
    /\ queue = <<>>
    /\ permits = capacity
    /\ waiters = <<>>
    /\ mbox = "alive"
    /\ inflight = {}
    /\ lastNext = "None"
    /\ owned = {}
    /\ arrived = <<>>
    /\ started = <<>>
    /\ ncalls = [i \in CallIds |-> 0]
    /\ nsends = [i \in CallIds |-> 0]
    /\ finished = {}
    /\ unavailable = {}

\* --------------------------------------------------------- Address actions
\* Address::clone
Clone(c) ==
    /\ alive /= {}
    /\ UNCHANGED <<storageVars, mergeVars, ingestVars, extVars>>
    /\ c \notin alive
    /\ alive' = alive \cup {c}
    /\ UNCHANGED <<capacity, pc, cur, outcome, nextId, reqs, oneshot, queue, permits,
                   waiters, mbox, inflight, lastNext, owned, ghostVars>>

\* the Address is dropped; a call borrows it, so only an idle caller can
DropAddress(c) ==
    /\ c \in alive
    /\ UNCHANGED <<storageVars, mergeVars, ingestVars, extVars>>
    /\ pc[c] = "idle"
    /\ alive' = alive \ {c}
    /\ UNCHANGED <<capacity, pc, cur, outcome, nextId, reqs, oneshot, queue, permits,
                   waiters, mbox, inflight, lastNext, owned, ghostVars>>

\* oneshot::channel(); self.tx.send(Envelope { payload, tx }).await
Submit(c, k, p) ==
    /\ c \in alive
    /\ UNCHANGED <<storageVars, mergeVars, ingestVars, extVars>>
    /\ pc[c] = "idle"
    /\ nextId <= MaxCalls
    /\ nextId' = nextId + 1
    /\ reqs' = IF mbox = "dropped" THEN reqs
               ELSE [reqs EXCEPT ![nextId] = [caller |-> c, kind |-> k, payload |-> p]]
    /\ UNCHANGED <<capacity, alive, mbox, inflight, lastNext, owned, started, ncalls,
                   nsends, finished, unavailable>>
    /\ IF mbox = "dropped"
       THEN \* SendError: the envelope and both oneshot halves are dropped
            /\ outcome' = [outcome EXCEPT ![c] =
                   [tag |-> FromSendError, id |-> nextId, val |-> NoVal, from |-> 0, want |-> NoVal]]
            /\ oneshot' = [oneshot EXCEPT ![nextId] = Gone]
            /\ UNCHANGED <<capacity, pc, cur, queue, permits, waiters, arrived>>
       ELSE IF HasCapacity
       THEN /\ queue' = Append(queue, Envelope(k, p, nextId))
            /\ arrived' = Append(arrived, nextId)
            /\ permits' = permits - 1
            /\ pc' = [pc EXCEPT ![c] = "awaiting"]
            /\ cur' = [cur EXCEPT ![c] = nextId]
            /\ outcome' = [outcome EXCEPT ![c] = NoOutcome]
            /\ oneshot' = [oneshot EXCEPT ![nextId].st = "open"]
            /\ UNCHANGED waiters
       ELSE /\ waiters' = Append(waiters, c)
            /\ pc' = [pc EXCEPT ![c] = "blocked"]
            /\ cur' = [cur EXCEPT ![c] = nextId]
            /\ outcome' = [outcome EXCEPT ![c] = NoOutcome]
            /\ oneshot' = [oneshot EXCEPT ![nextId].st = "open"]
            /\ UNCHANGED <<queue, permits, arrived>>

\* Address::command up to the end of its send
command(c, p) == Submit(c, "Command", p)
\* Address::query up to the end of its send
query(c, p) == Submit(c, "Query", p)

\* a suspended send() resumes with its permit and puts the envelope in
SendResume(c) ==
    /\ pc[c] = "permitted"
    /\ UNCHANGED <<storageVars, mergeVars, ingestVars, extVars>>
    /\ mbox = "alive"
    /\ queue' = Append(queue, Envelope(reqs[cur[c]].kind, reqs[cur[c]].payload, cur[c]))
    /\ arrived' = Append(arrived, cur[c])
    /\ pc' = [pc EXCEPT ![c] = "awaiting"]
    /\ UNCHANGED <<capacity, alive, cur, outcome, nextId, reqs, oneshot, permits, waiters,
                   mbox, inflight, lastNext, owned, started, ncalls, nsends,
                   finished, unavailable>>

\* a suspended send() resumes after the Mailbox was dropped: SendError
SendFail(c) ==
    /\ pc[c] \in {"blocked", "permitted"}
    /\ UNCHANGED <<storageVars, mergeVars, ingestVars, extVars>>
    /\ mbox = "dropped"
    /\ outcome' = [outcome EXCEPT ![c] =
           [tag |-> FromSendError, id |-> cur[c], val |-> NoVal, from |-> 0, want |-> NoVal]]
    /\ oneshot' = [oneshot EXCEPT ![cur[c]] = Gone]
    /\ pc' = [pc EXCEPT ![c] = "idle"]
    /\ cur' = [cur EXCEPT ![c] = 0]
    /\ waiters' = Without(waiters, c)
    /\ UNCHANGED <<capacity, alive, nextId, queue, permits, mbox, inflight,
                   lastNext, owned, ghostVars>>
    /\ reqs' = [reqs EXCEPT ![cur[c]] = NoReq]

\* rx.await yields the response: Ok(result)
RecvReply(c) ==
    /\ pc[c] = "awaiting"
    /\ UNCHANGED <<storageVars, mergeVars, ingestVars, extVars>>
    /\ oneshot[cur[c]].st = "sent"
    /\ outcome' = [outcome EXCEPT ![c] =
           [tag |-> "Ok", id |-> cur[c], val |-> oneshot[cur[c]].val,
            from |-> oneshot[cur[c]].from,
            want |-> Respond(Envelope(reqs[cur[c]].kind, reqs[cur[c]].payload, cur[c]))]]
    /\ oneshot' = [oneshot EXCEPT ![cur[c]] = Gone]
    /\ pc' = [pc EXCEPT ![c] = "idle"]
    /\ cur' = [cur EXCEPT ![c] = 0]
    /\ UNCHANGED <<capacity, alive, nextId, queue, permits, waiters, mbox,
                   inflight, lastNext, owned, ghostVars>>
    /\ reqs' = [reqs EXCEPT ![cur[c]] = NoReq]

\* rx.await yields RecvError: the sender was dropped without a response
RecvClosed(c) ==
    /\ pc[c] = "awaiting"
    /\ UNCHANGED <<storageVars, mergeVars, ingestVars, extVars>>
    /\ oneshot[cur[c]].st = "txDropped"
    /\ outcome' = [outcome EXCEPT ![c] =
           [tag |-> FromRecvError, id |-> cur[c], val |-> NoVal, from |-> 0, want |-> NoVal]]
    /\ oneshot' = [oneshot EXCEPT ![cur[c]] = Gone]
    /\ pc' = [pc EXCEPT ![c] = "idle"]
    /\ cur' = [cur EXCEPT ![c] = 0]
    /\ UNCHANGED <<capacity, alive, nextId, queue, permits, waiters, mbox,
                   inflight, lastNext, owned, ghostVars>>
    /\ reqs' = [reqs EXCEPT ![cur[c]] = NoReq]

\* the caller drops the future of command()/query() before it completes
Abandon(c) ==
    /\ pc[c] \in {"blocked", "permitted", "awaiting"}
    /\ UNCHANGED <<storageVars, mergeVars, ingestVars, extVars>>
    /\ outcome' = [outcome EXCEPT ![c] =
           [tag |-> "Abandoned", id |-> cur[c], val |-> NoVal, from |-> 0, want |-> NoVal]]
    /\ cur' = [cur EXCEPT ![c] = 0]
    /\ oneshot' = [oneshot EXCEPT ![cur[c]] =
           IF pc[c] = "awaiting" /\ @.st = "open"
           THEN [@ EXCEPT !.st = "rxDropped"] ELSE Gone]
    /\ IF pc[c] = "blocked"
       THEN /\ waiters' = Without(waiters, c)
            /\ pc' = [pc EXCEPT ![c] = "idle"]
            /\ UNCHANGED permits
       ELSE IF pc[c] = "permitted"
       THEN \* the permit it held goes back to the channel
            IF waiters /= <<>>
            THEN /\ pc' = [pc EXCEPT ![c] = "idle", ![Head(waiters)] = "permitted"]
                 /\ waiters' = Tail(waiters)
                 /\ UNCHANGED permits
            ELSE /\ pc' = [pc EXCEPT ![c] = "idle"]
                 /\ permits' = permits + 1
                 /\ UNCHANGED waiters
       ELSE /\ pc' = [pc EXCEPT ![c] = "idle"]
            /\ UNCHANGED <<permits, waiters>>
    /\ UNCHANGED <<capacity, alive, nextId, queue, mbox, inflight, lastNext,
                   owned, ghostVars>>
    /\ reqs' = [reqs EXCEPT ![cur[c]] = NoReq]

\* --------------------------------------------------------- Mailbox actions
\* Mailbox::next: rx.recv() yields an envelope and its handler is invoked
next_recv ==
    /\ mbox = "alive"
    /\ UNCHANGED <<storageVars, mergeVars, ingestVars, extVars>>
    /\ NextReady
    /\ queue /= <<>>
    /\ LET env == queue[RecvIndex(queue)] IN
         /\ inflight' = inflight \cup {env}
         /\ started' = Append(started, env.tx)
         /\ ncalls' = [ncalls EXCEPT ![env.tx] = @ + 1]
    /\ queue' = Remaining(queue)
    /\ ReleasePermit
    /\ UNCHANGED <<capacity, alive, cur, outcome, nextId, reqs, oneshot, mbox, lastNext,
                   owned, arrived, nsends, finished, unavailable>>

\* Mailbox::next: the handler returns, tx.send(resp), next() returns
next_reply ==
    /\ mbox = "alive"
    /\ UNCHANGED <<storageVars, mergeVars, ingestVars, extVars>>
    /\ \E env \in inflight :
         LET t == ReplyTx(env)
             ok == oneshot[t].st = "open"
             result == IF ok THEN "Ok" ELSE MapSendErr
         IN /\ inflight' = inflight \ {env}
            /\ owned' = Apply(env, owned)
            /\ nsends' = [nsends EXCEPT ![env.tx] = @ + 1]
            /\ finished' = finished \cup {env.tx}
            /\ unavailable' = IF ok THEN unavailable ELSE unavailable \cup {env.tx}
            /\ oneshot' = IF ok
                          THEN [oneshot EXCEPT ![t] =
                                   [st |-> "sent", val |-> Respond(env), from |-> env.tx]]
                          ELSE IF oneshot[t].st = "rxDropped"
                          THEN [oneshot EXCEPT ![t] = Gone]
                          ELSE oneshot
            /\ lastNext' = result
            /\ mbox' = LoopAfter(result)
    /\ UNCHANGED <<callerVars, queue, permits, waiters, arrived, started, ncalls>>

\* Mailbox::next: rx.recv() yields None, next() returns Err(ChannelClosed)
next_closed ==
    /\ mbox = "alive"
    /\ UNCHANGED <<storageVars, mergeVars, ingestVars, extVars>>
    /\ NextReady
    /\ RecvNone
    /\ lastNext' = "ChannelClosed"
    /\ mbox' = LoopAfter("ChannelClosed")
    /\ UNCHANGED <<callerVars, oneshot, queue, permits, waiters, inflight,
                   owned, ghostVars>>

\* the task owning the Mailbox ends (a handler panics, the runtime stops):
\* the Receiver and every envelope it holds, with its oneshot sender, drop
DropMailbox ==
    /\ mbox = "alive"
    /\ UNCHANGED <<storageVars, mergeVars, ingestVars, extVars>>
    /\ mbox' = "dropped"
    /\ LET held == {queue[i].tx : i \in 1..Len(queue)} \cup {ReplyTx(e) : e \in inflight}
       IN oneshot' = [i \in CallIds |->
              IF i \in held
              THEN IF oneshot[i].st = "open" THEN [oneshot[i] EXCEPT !.st = "txDropped"] ELSE Gone
              ELSE oneshot[i]]
    /\ queue' = <<>>
    /\ inflight' = {}
    /\ UNCHANGED <<callerVars, permits, waiters, lastNext, owned, ghostVars>>

\* ------------------------------------------------- shared/src/data.rs
Status(s, t, f) == [source_id |-> s, timestamp |-> t, position |-> f[1],
                    bearing |-> f[2], speed |-> f[3]]
StatusInputs == {Status(s, t, f) : s \in Sources, t \in Timestamps, f \in Shapes}
Keys == Sources \X Timestamps

\* Option::or
opt_or(x, y) == IF x /= None THEN x ELSE y

merge_takes_rhs(self, rhs) ==
    [source_id |-> self.source_id, timestamp |-> self.timestamp,
     position |-> rhs.position, bearing |-> rhs.bearing, speed |-> rhs.speed]
merge_prefers_self(self, rhs) ==
    [source_id |-> self.source_id, timestamp |-> self.timestamp,
     position |-> opt_or(self.position, rhs.position),
     bearing |-> opt_or(self.bearing, rhs.bearing),
     speed |-> opt_or(self.speed, rhs.speed)]
merge_xor(self, rhs) ==
    [source_id |-> self.source_id, timestamp |-> self.timestamp,
     position |-> IF rhs.position /= None /\ self.position /= None THEN None
                  ELSE opt_or(rhs.position, self.position),
     bearing |-> IF rhs.bearing /= None /\ self.bearing /= None THEN None
                 ELSE opt_or(rhs.bearing, self.bearing),
     speed |-> IF rhs.speed /= None /\ self.speed /= None THEN None
               ELSE opt_or(rhs.speed, self.speed)]
\* Status::merge
merge(self, rhs) ==
    [source_id |-> self.source_id,
     timestamp |-> self.timestamp,
     position |-> opt_or(rhs.position, self.position),
     bearing |-> opt_or(rhs.bearing, self.bearing),
     speed |-> opt_or(rhs.speed, self.speed)]

\* ------------------------------------------------- storage/memory.rs
EmptyMap == [x \in {} |-> None]
Put(m, k, v) == [x \in DOMAIN m \cup {k} |-> IF x = k THEN v ELSE m[x]]
\* .entry(source_id).or_default()
OrDefault(m, k) == IF k \in DOMAIN m THEN m[k] ELSE EmptyMap

InsertDropReplace(m, status) == Put(m, status.timestamp, status)
\* DupeStrategy::Drop: .entry(timestamp).or_insert(status)
InsertDrop(m, status) ==
    IF status.timestamp \in DOMAIN m THEN m ELSE Put(m, status.timestamp, status)
InsertMergeSwapped(m, status) ==
    IF status.timestamp \in DOMAIN m
    THEN Put(m, status.timestamp, [source_id |-> status.source_id,
             timestamp |-> status.timestamp,
             position |-> IF status.position /= None THEN status.position
                          ELSE m[status.timestamp].position,
             bearing |-> IF m[status.timestamp].bearing /= None
                         THEN m[status.timestamp].bearing ELSE status.bearing,
             speed |-> IF m[status.timestamp].speed /= None
                       THEN m[status.timestamp].speed ELSE status.speed])
    ELSE Put(m, status.timestamp, status)
\* DupeStrategy::Merge: .entry(timestamp).and_modify(merge).or_insert(status)
InsertMerge(m, status) ==
    IF status.timestamp \in DOMAIN m
    THEN Put(m, status.timestamp, merge(m[status.timestamp], status))
    ELSE Put(m, status.timestamp, status)
InsertOverwriteKeep(m, status) ==
    IF status.timestamp \in DOMAIN m THEN m ELSE Put(m, status.timestamp, status)
InsertOverwriteMisKeyed(m, status) == Put(m, status.timestamp + 10, status)
\* DupeStrategy::Overwrite: .insert(timestamp, status)
InsertOverwrite(m, status) == Put(m, status.timestamp, status)

\* MemoryStorage::new
MemoryStorage_new(strategy) ==
    /\ dupe_strategy = strategy
    /\ statuses = EmptyMap
    /\ persisted = [k \in Keys |-> <<>>]
    /\ npersist = 0
    /\ returned = [call |-> "new", result |-> "Ok"]

\* MemoryStorage::persist_status
persist_status(status) ==
    /\ npersist < MaxPersists
    /\ returned.result /= "panic"
    /\ npersist' = npersist + 1
    /\ LET m == OrDefault(statuses, status.source_id)
           m2 == CASE dupe_strategy = "Drop" -> InsertDrop(m, status)
                   [] dupe_strategy = "Merge" -> InsertMerge(m, status)
                   [] dupe_strategy = "Overwrite" -> InsertOverwrite(m, status)
       IN statuses' = Put(statuses, status.source_id, m2)
    /\ persisted' = [persisted EXCEPT ![<<status.source_id, status.timestamp>>] =
                        Append(@, status)]
    /\ returned' = [call |-> "persist_status", result |-> "Ok"]
    /\ UNCHANGED <<dupe_strategy, cqVars, mergeVars, ingestVars, extVars>>

\* the record stored under a key, None when there is none
Stored(k) == IF k[1] \in DOMAIN statuses /\ k[2] \in DOMAIN statuses[k[1]]
             THEN statuses[k[1]][k[2]] ELSE None

\* a bound of a range of timestamps (core::ops::Bound<OffsetDateTime>)
Unbounded == [kind |-> "Unbounded", at |-> 0]
Included(t) == [kind |-> "Included", at |-> t]
Excluded(t) == [kind |-> "Excluded", at |-> t]
Bounds == {Unbounded} \cup {Included(t) : t \in Points} \cup {Excluded(t) : t \in Points}
TimeRanges == Bounds \X Bounds

\* RangeBounds::contains: t lies within the bounds as supplied
Contains(timestamps, t) ==
    /\ CASE timestamps[1].kind = "Unbounded" -> TRUE
         [] timestamps[1].kind = "Included" -> timestamps[1].at <= t
         [] timestamps[1].kind = "Excluded" -> timestamps[1].at < t
    /\ CASE timestamps[2].kind = "Unbounded" -> TRUE
         [] timestamps[2].kind = "Included" -> t <= timestamps[2].at
         [] timestamps[2].kind = "Excluded" -> t < timestamps[2].at

\* BTreeMap::range on a map that holds entries panics when start > end, and
\* when start = end with both bounds Excluded
RangePanics(timestamps) ==
    /\ timestamps[1].kind /= "Unbounded"
    /\ timestamps[2].kind /= "Unbounded"
    /\ \/ timestamps[1].at > timestamps[2].at
       \/ /\ timestamps[1].at = timestamps[2].at
          /\ timestamps[1].kind = "Excluded"
          /\ timestamps[2].kind = "Excluded"

\* the elements of a set of timestamps in ascending order (BTreeMap iteration)
RECURSIVE Ascending(_)
Ascending(S) ==
    IF S = {} THEN <<>>
    ELSE LET lo == CHOOSE x \in S : \A y \in S : x <= y
         IN <<lo>> \o Ascending(S \ {lo})

\* m.range(timestamps).map(|(_, v)| v).copied().collect()
RangeCollect(m, timestamps) ==
    LET ts == Ascending({t \in DOMAIN m : Contains(timestamps, t)})
    IN [i \in 1..Len(ts) |-> m[ts[i]]]

LookupEntry(st, source_id) ==
    IF source_id \in DOMAIN st THEN st ELSE Put(st, source_id, EmptyMap)
\* self.statuses.get(&source_id) borrows the map and leaves it as it was
Lookup(st, source_id) == st

\* MemoryStorage::get_statuses
get_statuses(source_id, timestamps) ==
    /\ returned.result /= "panic"
    /\ statuses' = Lookup(statuses, source_id)
    /\ returned' =
          IF source_id \in DOMAIN statuses'
          THEN IF RangePanics(timestamps)
               THEN [call |-> "get_statuses", source_id |-> source_id,
                     timestamps |-> timestamps, result |-> "panic", out |-> <<>>]
               ELSE [call |-> "get_statuses", source_id |-> source_id,
                     timestamps |-> timestamps, result |-> "Ok",
                     out |-> RangeCollect(statuses'[source_id], timestamps)]
          ELSE [call |-> "get_statuses", source_id |-> source_id,
                timestamps |-> timestamps, result |-> "Ok", out |-> <<>>]
    /\ UNCHANGED <<dupe_strategy, persisted, npersist, cqVars, mergeVars, ingestVars, extVars>>

\* --------------------------------------------------- shared: Status::merge
\* two Status values, before merge has been applied to them
MergeInputs(a, b) == merge_self = a /\ merge_rhs = b /\ merge_out = <<>>


\* tests::status_merge: merge applied in both orders
status_merge ==
    /\ merge_out = <<>>
    /\ merge_out' = <<merge(merge_self, merge_rhs), merge(merge_rhs, merge_self)>>
    /\ UNCHANGED <<merge_self, merge_rhs, storageVars, cqVars, ingestVars, extVars>>

\* merge applied to three values, grouped from the left as successive
\* persist_status calls under DupeStrategy::Merge group it, and from the right
merge_grouped(c) ==
    /\ merge_out = <<>>
    /\ merge_out' = <<c, merge(merge(merge_self, merge_rhs), c),
                      merge(merge_self, merge(merge_rhs, c))>>
    /\ UNCHANGED <<merge_self, merge_rhs, storageVars, cqVars, ingestVars, extVars>>

\* -------------------------------------------------- ingest.rs: listen_tcp
\* listen_tcp after a successful bind: the accept loop runs, no peer has
\* connected yet
IngestInit ==
    /\ listener = "accepting"
    /\ conn = [c \in Conns |-> "pending"]
    /\ sent = [c \in Conns |-> <<>>]
    /\ nread = [c \in Conns |-> 0]
    /\ forwarded = [c \in Conns |-> <<>>]
    /\ nreturned = [c \in Conns |-> 0]
    /\ eof = [c \in Conns |-> FALSE]

AcceptLoopAfterBreak(l, result) == IF result = "Ok" THEN l ELSE "stopped"
\* the per-connection task only logs what process_status_stream returned;
\* the accept loop never sees it
AcceptLoopAfter(l, result) == l

ReadReadyWhileHandling(c) == conn[c] \in {"reading", "handling"}
\* the loop polls reader.next() only after handler.run(..).await has returned
ReadReady(c) == conn[c] = "reading"

AfterDecodeErrorSkip == "reading"
\* frame.map_err(..)? returns Err from process_status_stream
AfterDecodeError == "failed"

\* timeout(read_timeout, reader.next()).await? returns Err(Elapsed)
AfterTimeout == "timed_out"

\* TcpListener::bind has succeeded: peers can reach the socket
SocketBound == listener \notin {"starting", "bind_failed"}

\* the peer of connection c delivers one complete frame: well-formed (TRUE)
\* or malformed (FALSE)
PeerSend(c, ok) ==
    /\ SocketBound
    /\ conn[c] \in {"pending", "reading", "handling"}
    /\ ~eof[c]
    /\ Len(sent[c]) < MaxFrames
    /\ sent' = [sent EXCEPT ![c] = Append(@, ok)]
    /\ UNCHANGED <<listener, conn, nread, forwarded, nreturned, eof>>
    /\ UNCHANGED <<storageVars, cqVars, mergeVars, extVars>>

\* the peer of connection c closes its sending side
PeerClose(c) ==
    /\ SocketBound
    /\ conn[c] \in {"pending", "reading", "handling"}
    /\ ~eof[c]
    /\ eof' = [eof EXCEPT ![c] = TRUE]
    /\ UNCHANGED <<listener, conn, sent, nread, forwarded, nreturned>>
    /\ UNCHANGED <<storageVars, cqVars, mergeVars, extVars>>

\* listener.accept() returns Ok: a task running process_status_stream is
\* spawned for the connection
accept(c) ==
    /\ listener = "accepting"
    /\ conn[c] = "pending"
    /\ conn' = [conn EXCEPT ![c] = "reading"]
    /\ UNCHANGED <<listener, sent, nread, forwarded, nreturned, eof>>
    /\ UNCHANGED <<storageVars, cqVars, mergeVars, extVars>>

\* listen_tcp before TcpListener::bind has been tried
ListenInit ==
    /\ listener = "starting"
    /\ conn = [c \in Conns |-> "pending"]
    /\ sent = [c \in Conns |-> <<>>]
    /\ nread = [c \in Conns |-> 0]
    /\ forwarded = [c \in Conns |-> <<>>]
    /\ nreturned = [c \in Conns |-> 0]
    /\ eof = [c \in Conns |-> FALSE]

\* TcpListener::bind(addr).await?: on Ok the accept loop is spawned and
\* listen_tcp returns Ok(()); on Err listen_tcp returns the error at once
bind(ok) ==
    /\ listener = "starting"
    /\ listener' = IF ok THEN "accepting" ELSE "bind_failed"
    /\ UNCHANGED <<conn, sent, nread, forwarded, nreturned, eof>>
    /\ UNCHANGED <<storageVars, cqVars, mergeVars, extVars>>

AfterAcceptErrBreak(l) == "stopped"
\* Err(err) => warn!(..): the loop goes round to listener.accept() again
AfterAcceptErr(l) == l

\* listener.accept() returns Err for the connection attempt of c
accept_err(c) ==
    /\ listener = "accepting"
    /\ conn[c] = "pending"
    /\ conn' = [conn EXCEPT ![c] = "aborted"]
    /\ listener' = AfterAcceptErr(listener)
    /\ UNCHANGED <<sent, nread, forwarded, nreturned, eof>>
    /\ UNCHANGED <<storageVars, cqVars, mergeVars, extVars>>

\* reader.next() yields the next frame: a decoded Status goes to
\* handler.run, a decoding error ends process_status_stream
read_frame(c) ==
    /\ ReadReady(c)
    /\ nread[c] < Len(sent[c])
    /\ nread' = [nread EXCEPT ![c] = @ + 1]
    /\ IF sent[c][nread[c] + 1]
       THEN /\ forwarded' = [forwarded EXCEPT ![c] = Append(@, nread[c] + 1)]
            /\ conn' = [conn EXCEPT ![c] = "handling"]
            /\ listener' = listener
       ELSE /\ forwarded' = forwarded
            /\ conn' = [conn EXCEPT ![c] = AfterDecodeError]
            /\ listener' = AcceptLoopAfter(listener, "Err")
    /\ UNCHANGED <<sent, nreturned, eof>>
    /\ UNCHANGED <<storageVars, cqVars, mergeVars, extVars>>

\* handler.run(status).await completes; .expect("Status channel") panics
\* the connection's task on Err
handler_return(c, result) ==
    /\ conn[c] = "handling"
    /\ nreturned[c] < Len(forwarded[c])
    /\ nreturned' = [nreturned EXCEPT ![c] = @ + 1]
    /\ conn' = [conn EXCEPT ![c] = IF result = "Ok" THEN "reading" ELSE "panicked"]
    /\ UNCHANGED <<listener, sent, nread, forwarded, eof>>
    /\ UNCHANGED <<storageVars, cqVars, mergeVars, extVars>>

\* read_timeout elapses while reader.next() has no complete frame to yield
read_timeout(c) ==
    /\ conn[c] = "reading"
    /\ nread[c] = Len(sent[c])
    /\ ~eof[c]
    /\ conn' = [conn EXCEPT ![c] = AfterTimeout]
    /\ listener' = AcceptLoopAfter(listener, "Err")
    /\ UNCHANGED <<sent, nread, forwarded, nreturned, eof>>
    /\ UNCHANGED <<storageVars, cqVars, mergeVars, extVars>>

\* reader.next() yields None at the end of the stream: the loop ends, Ok(())
read_eof(c) ==
    /\ conn[c] = "reading"
    /\ nread[c] = Len(sent[c])
    /\ eof[c]
    /\ conn' = [conn EXCEPT ![c] = "closed"]
    /\ listener' = AcceptLoopAfter(listener, "Ok")
    /\ UNCHANGED <<sent, nread, forwarded, nreturned, eof>>
    /\ UNCHANGED <<storageVars, cqVars, mergeVars, extVars>>

\* -------------------------------------------------- ingest.rs: listen_udp
\* listen_udp after a successful bind: the receive loop runs
UdpInit ==
    /\ udp = "receiving"
    /\ dgrams = <<>>
    /\ udp_forwarded = <<>>
    /\ udp_results = <<>>

\* a decoder and its empty buffer on a stream that carries the bytes w
CodecInit(w) ==
    /\ wire = w
    /\ nfed = 0
    /\ src = <<>>
    /\ items = <<>>
    /\ dec = "waiting"
    /\ maxchunk = 0

\* the other subsystems as constructed, for specifications that leave them be
\* no request has been answered
HttpInit == http_code = [i \in CallIds |-> "none"]

ExtInit == UdpInit /\ CodecInit(<<>>) /\ HttpInit

\* let mut buf = [0; 128]
RecvBufLen == 128

\* a datagram of len bytes that starts with the encoding of one Status,
\* record bytes long (0: it starts with no valid encoding); os is what the
\* socket does with it: "Ok" delivers it, cut to the buffer when longer,
\* "Err" makes recv_from fail (as Windows does for a datagram that is too
\* long, where Unix cuts it)
Datagram(len, record, os) == [len |-> len, record |-> record, os |-> os]
Datagrams ==
    {d \in [len : DatagramLens, record : {0} \cup DatagramLens, os : {"Ok", "Err"}] :
        d.record <= d.len}

\* socket.recv_from(&mut buf): the number of bytes placed in buf
recv_from(d) == IF d.len <= RecvBufLen THEN d.len ELSE RecvBufLen

\* serde_cbor::from_slice::<Status>(&buf[0..len]): Ok when the bytes are
\* exactly one encoded Status, Err on invalid bytes, on a cut-off record
\* and on trailing bytes
from_slice(d, n) == IF d.record > 0 /\ d.record = n THEN "Ok" ELSE "Err"

UdpAfterDropBreak(u) == "stopped"
\* the Err arms only log with debug!; the loop goes round to recv_from
UdpAfterDrop(u) == u

UdpAfterForwardSwallow(result) == "receiving"
\* handler.run(status).await.expect("Status channel") panics the task on Err
UdpAfterForward(result) == IF result = "Ok" THEN "receiving" ELSE "panicked"

\* one turn of the receive loop up to the handler call
udp_recv(d) ==
    /\ udp = "receiving"
    /\ Len(dgrams) < MaxDatagrams
    /\ dgrams' = Append(dgrams, d)
    /\ IF d.os = "Ok" /\ from_slice(d, recv_from(d)) = "Ok"
       THEN /\ udp_forwarded' = Append(udp_forwarded, Len(dgrams) + 1)
            /\ udp' = "handling"
       ELSE /\ udp_forwarded' = udp_forwarded
            /\ udp' = UdpAfterDrop(udp)
    /\ UNCHANGED udp_results
    /\ UNCHANGED <<storageVars, cqVars, mergeVars, ingestVars, codecVars, httpVars>>

\* handler.run(status).await completes
udp_handler_return(result) ==
    /\ udp = "handling"
    /\ udp_results' = Append(udp_results, result)
    /\ udp' = UdpAfterForward(result)
    /\ UNCHANGED <<dgrams, udp_forwarded>>
    /\ UNCHANGED <<storageVars, cqVars, mergeVars, ingestVars, codecVars, httpVars>>

\* ------------------------------------------- util/cbor.rs: CborDecoder
\* The wire format in small: an item is the head byte followed by
\* ItemLen - 1 body bytes; the head byte is no body byte.
HeadByte == 2
BodyBytes == {0, 1}
Bytes == BodyBytes \cup {HeadByte}
ItemLen == 3
Items == [1..(ItemLen - 1) -> BodyBytes]
Encode(item) == <<HeadByte>> \o item

\* ciborium::de::from_reader on a byte slice: reads one item front to back;
\* running out of bytes is Error::Io, a byte that cannot be there is
\* another error, and on Ok the slice has moved past the item's bytes
RECURSIVE Scan(_, _)
Scan(bytes, i) ==
    IF i > ItemLen THEN "Ok"
    ELSE IF i > Len(bytes) THEN "Io"
    ELSE IF (i = 1 /\ bytes[i] /= HeadByte) \/ (i > 1 /\ bytes[i] \notin BodyBytes)
    THEN "Syntax"
    ELSE Scan(bytes, i + 1)

from_reader(bytes) ==
    LET tag == Scan(bytes, 1)
    IN IF tag = "Ok"
       THEN [tag |-> "Ok", item |-> SubSeq(bytes, 2, ItemLen),
             bytes |-> SubSeq(bytes, ItemLen + 1, Len(bytes))]
       ELSE [tag |-> tag, item |-> <<>>, bytes |-> bytes]

AdvanceAll(buf, n) == <<>>
\* BytesMut::advance
Advance(buf, n) == SubSeq(buf, n + 1, Len(buf))

OnIoDiscard(buf) == <<>>
\* Err(Error::Io(_)) => return Ok(None): the buffer is not touched
OnIo(buf) == buf

\* CborDecoder::decode: the result and the buffer it leaves
decode(buf) ==
    LET start == Len(buf)
        r == from_reader(buf)
    IN CASE r.tag = "Io" -> [result |-> "None", item |-> <<>>, src |-> OnIo(buf)]
         [] r.tag = "Ok" -> [result |-> "Some", item |-> r.item,
                             src |-> Advance(buf, start - Len(r.bytes))]
         [] OTHER -> [result |-> "Err", item |-> <<>>, src |-> buf]

\* a read places the next n bytes of the stream behind those in the buffer
Feed(n) ==
    /\ dec \in {"waiting", "readable"}
    /\ n >= 1
    /\ nfed + n <= Len(wire)
    /\ src' = src \o SubSeq(wire, nfed + 1, nfed + n)
    /\ nfed' = nfed + n
    /\ dec' = "readable"
    /\ maxchunk' = IF n > maxchunk THEN n ELSE maxchunk
    /\ UNCHANGED <<wire, items>>
    /\ UNCHANGED <<storageVars, cqVars, mergeVars, ingestVars, udpVars, httpVars>>

\* decode is called on the buffer
Decode ==
    /\ dec = "readable"
    /\ LET d == decode(src)
       IN /\ src' = d.src
          /\ items' = IF d.result = "Some" THEN Append(items, d.item) ELSE items
          /\ dec' = CASE d.result = "Some" -> "readable"
                      [] d.result = "None" -> "waiting"
                      [] OTHER -> "failed"
    /\ UNCHANGED <<wire, nfed, maxchunk>>
    /\ UNCHANGED <<storageVars, cqVars, mergeVars, ingestVars, udpVars, httpVars>>

\* ------------------------------------------------- http.rs: submit_status
\* StorageCommand::Result is Result<()>: the handler's response to
\* PersistStatus(p) is Err(StorageError) for the statuses the engine cannot
\* persist, and Ok(()) for the others
Unpersistable == {2}
IsStorageErr(resp) == resp[2] \in Unpersistable

\* the match in submit_status on what handler.command(..).await returned
StatusCodeFor(o) == IF o.tag = "Ok" THEN "OK" ELSE "INTERNAL_SERVER_ERROR"

Answered(c) ==
    outcome[c].tag \in {"Ok", "ChannelClosed"} => http_code[outcome[c].id] /= "none"

\* submit_status, up to the end of the send in handler.command: the task of
\* a request calls command with PersistStatus(status)
submit_status(c, p) ==
    /\ Answered(c)
    /\ command(c, p)

\* submit_status, from the return of handler.command: the response
submit_status_return(c) ==
    /\ pc[c] = "idle"
    /\ ~Answered(c)
    /\ http_code' = [http_code EXCEPT ![outcome[c].id] = StatusCodeFor(outcome[c])]
    /\ UNCHANGED <<storageVars, cqVars, mergeVars, ingestVars, udpVars, codecVars>>

\* ------------------------------------------------- bin/server.rs: main
\* The Address that main hands to listen_udp is the datagram listener's
\* handler, caller 1 of the dispatch actor; caller 2 is a client that
\* queries through another clone of the Address.
UdpCaller == 1
QueryCaller == 2

\* handler.run(status) in listen_udp, up to the end of the send: the Status
\* of the datagram in hand goes to the actor as a PersistStatus command
run_command(p) ==
    /\ udp = "handling"
    /\ outcome[UdpCaller] = NoOutcome
    /\ command(UdpCaller, p)

\* handler.run(status) returns to listen_udp what the command returned
run_return ==
    /\ pc[UdpCaller] = "idle"
    /\ outcome[UdpCaller].tag \in {"Ok", "ChannelClosed"}
    /\ udp_handler_return(IF outcome[UdpCaller].tag = "Ok" THEN "Ok" ELSE "Err")

\* on_command and on_query are todo!(): the handler next() has invoked
\* panics, and the task that loops on status_rx.next() ends with it
todo ==
    /\ inflight /= {}
    /\ DropMailbox

\* ------------------------------------------------------- specifications
\* the dispatch actor of bin/server.rs: storage left as constructed
Init ==
    /\ \E bound \in 1..MaxCapacity : bounded(bound)
    /\ MemoryStorage_new("Merge")
    /\ MergeInputs(Status(1, 10, <<None, None, None>>), Status(1, 10, <<None, None, None>>))
    /\ IngestInit
    /\ ExtInit

Next ==
    \/ \E c \in Callers : Clone(c)
    \/ \E c \in Callers : DropAddress(c)
    \/ \E c \in Callers, p \in Payloads : command(c, p)
    \/ \E c \in Callers, p \in Payloads : query(c, p)
    \/ \E c \in Callers : SendResume(c)
    \/ \E c \in Callers : SendFail(c)
    \/ \E c \in Callers : RecvReply(c)
    \/ \E c \in Callers : RecvClosed(c)
    \/ \E c \in Callers : Abandon(c)
    \/ next_recv
    \/ next_reply
    \/ next_closed
    \/ DropMailbox

Spec == Init /\ [][Next]_vars

\* the storage engine on its own, under each duplicate strategy
StorageInit ==
    /\ bounded(1)
    /\ \E d \in DupeStrategies : MemoryStorage_new(d)
    /\ MergeInputs(Status(1, 10, <<None, None, None>>), Status(1, 10, <<None, None, None>>))
    /\ IngestInit
    /\ ExtInit

StorageNext == \E status \in StatusInputs : persist_status(status)

StorageSpec == StorageInit /\ [][StorageNext]_vars

\* the storage engine answering range queries between persists
QueryInputs == {Status(s, t, <<None, None, None>>) : s \in Sources, t \in Timestamps}

QueryNext ==
    \/ \E status \in QueryInputs : persist_status(status)
    \/ \E s \in Sources, r \in TimeRanges : get_statuses(s, r)

QueryInit ==
    /\ bounded(1)
    /\ MemoryStorage_new("Overwrite")
    /\ MergeInputs(Status(1, 10, <<None, None, None>>), Status(1, 10, <<None, None, None>>))
    /\ IngestInit
    /\ ExtInit

QuerySpec == QueryInit /\ [][QueryNext]_vars

\* Status::merge applied to every pair of Status values
MergeInit ==
    /\ bounded(1)
    /\ MemoryStorage_new("Merge")
    /\ \E a, b \in StatusInputs : MergeInputs(a, b)
    /\ IngestInit
    /\ ExtInit

MergeNext == status_merge

MergeSpec == MergeInit /\ [][MergeNext]_vars

\* one payload is enough where only the progress of the calls is in question
LivePayloads == {1}

\* the dispatch loop of main with handlers that return: the task that owns
\* the Mailbox is never dropped and calls next() again and again, every
\* handler future completes, and the runtime polls every task that was
\* woken (a sender granted its slot, a caller whose response was sent)
LiveNext ==
    \/ \E c \in Callers : Clone(c)
    \/ \E c \in Callers : DropAddress(c)
    \/ \E c \in Callers, p \in LivePayloads : command(c, p)
    \/ \E c \in Callers, p \in LivePayloads : query(c, p)
    \/ \E c \in Callers : SendResume(c)
    \/ \E c \in Callers : RecvReply(c)
    \/ \E c \in Callers : Abandon(c)
    \/ next_recv
    \/ next_reply
    \/ next_closed

Fairness ==
    /\ WF_vars(next_recv)
    /\ WF_vars(next_reply)
    /\ \A c \in Callers : WF_vars(SendResume(c))
    /\ \A c \in Callers : WF_vars(RecvReply(c))

LiveSpec == Init /\ [][LiveNext]_vars /\ Fairness

\* Status::merge on three values
GroupedNext == \E c \in StatusInputs : merge_grouped(c)

GroupedSpec == MergeInit /\ [][GroupedNext]_vars

\* the stream listener and its per-connection tasks
IngestInitAll ==
    /\ bounded(1)
    /\ MemoryStorage_new("Merge")
    /\ MergeInputs(Status(1, 10, <<None, None, None>>), Status(1, 10, <<None, None, None>>))
    /\ IngestInit
    /\ ExtInit

IngestNext ==
    \/ \E c \in Conns, ok \in BOOLEAN : PeerSend(c, ok)
    \/ \E c \in Conns : PeerClose(c)
    \/ \E c \in Conns : accept(c)
    \/ \E c \in Conns : read_frame(c)
    \/ \E c \in Conns, result \in {"Ok", "Err"} : handler_return(c, result)
    \/ \E c \in Conns : read_timeout(c)
    \/ \E c \in Conns : read_eof(c)

IngestSpec == IngestInitAll /\ [][IngestNext]_vars

\* listen_tcp from its call: bind, then the accept loop with its failures
ListenInitAll ==
    /\ bounded(1)
    /\ MemoryStorage_new("Merge")
    /\ MergeInputs(Status(1, 10, <<None, None, None>>), Status(1, 10, <<None, None, None>>))
    /\ ListenInit
    /\ ExtInit

ListenNext ==
    \/ \E ok \in BOOLEAN : bind(ok)
    \/ \E c \in Conns : accept_err(c)
    \/ \E c \in Conns, ok \in BOOLEAN : PeerSend(c, ok)
    \/ \E c \in Conns : PeerClose(c)
    \/ \E c \in Conns : accept(c)
    \/ \E c \in Conns : read_frame(c)
    \/ \E c \in Conns, result \in {"Ok", "Err"} : handler_return(c, result)
    \/ \E c \in Conns : read_timeout(c)
    \/ \E c \in Conns : read_eof(c)

ListenSpec == ListenInitAll /\ [][ListenNext]_vars

\* the datagram listener
UdpInitAll ==
    /\ bounded(1)
    /\ MemoryStorage_new("Merge")
    /\ MergeInputs(Status(1, 10, <<None, None, None>>), Status(1, 10, <<None, None, None>>))
    /\ IngestInit
    /\ UdpInit
    /\ CodecInit(<<>>)
    /\ HttpInit

UdpNext ==
    \/ \E d \in Datagrams : udp_recv(d)
    \/ \E result \in {"Ok", "Err"} : udp_handler_return(result)

UdpSpec == UdpInitAll /\ [][UdpNext]_vars

\* both listeners side by side, fed well-formed input only, with a handler
\* whose forward may fail
ForwardNext ==
    \/ \E c \in Conns : accept(c)
    \/ \E c \in Conns : PeerSend(c, TRUE)
    \/ \E c \in Conns : read_frame(c)
    \/ \E c \in Conns, result \in {"Ok", "Err"} : handler_return(c, result)
    \/ udp_recv(Datagram(100, 100, "Ok"))
    \/ \E result \in {"Ok", "Err"} : udp_handler_return(result)

ForwardSpec == UdpInitAll /\ [][ForwardNext]_vars

\* requests to submit_status, each in its task with its clone of the Address
HttpNext ==
    \/ \E c \in Callers : Clone(c)
    \/ \E c \in Callers, p \in Payloads : submit_status(c, p)
    \/ \E c \in Callers : SendResume(c)
    \/ \E c \in Callers : SendFail(c)
    \/ \E c \in Callers : RecvReply(c)
    \/ \E c \in Callers : RecvClosed(c)
    \/ \E c \in Callers : submit_status_return(c)
    \/ next_recv
    \/ next_reply
    \/ DropMailbox

HttpSpec == Init /\ [][HttpNext]_vars

\* main: a datagram listener and a querying client on the dispatch actor
\* whose handlers are on_command and on_query of bin/server.rs
ServerNext ==
    \/ udp_recv(Datagram(100, 100, "Ok"))
    \/ \E p \in Payloads : run_command(p)
    \/ run_return
    \/ Clone(QueryCaller)
    \/ \E p \in Payloads : query(QueryCaller, p)
    \/ \E c \in Callers : SendResume(c)
    \/ \E c \in Callers : SendFail(c)
    \/ \E c \in Callers : RecvClosed(c)
    \/ next_recv
    \/ todo

ServerSpec == Init /\ [][ServerNext]_vars

\* CborDecoder::decode fed a stream of bytes in chunks of any sizes
CodecInitAll ==
    /\ bounded(1)
    /\ MemoryStorage_new("Merge")
    /\ MergeInputs(Status(1, 10, <<None, None, None>>), Status(1, 10, <<None, None, None>>))
    /\ IngestInit
    /\ UdpInit
    /\ \E n \in 1..MaxBytes : \E w \in [1..n -> Bytes] : CodecInit(w)
    /\ HttpInit

CodecNext ==
    \/ \E n \in 1..MaxBytes : Feed(n)
    \/ Decode

CodecSpec == CodecInitAll /\ [][CodecNext]_vars

\* ------------------------------------------------------------- properties
Range(seq) == {seq[i] : i \in 1..Len(seq)}
IsPrefix(a, b) == Len(a) <= Len(b) /\ a = SubSeq(b, 1, Len(a))
Permitted == {c \in Callers : pc[c] = "permitted"}

\* C1: handlers are invoked in the order the envelopes entered the mailbox,
\* whatever their kinds and callers, and each handler is invoked only after
\* the Mailbox::next call of every earlier one has returned; a caller holding
\* Ok for its call therefore had it completed before any later call started.
C1_ArrivalOrder ==
    /\ IsPrefix(started, arrived)
    /\ \A i \in 1..(Len(started) - 1) : started[i] \in finished
    /\ \A c \in Callers : outcome[c].tag = "Ok" => outcome[c].id \in finished

\* C1 witness: a Query and a later Command wait together in the mailbox
\* after next() has already served a request.
C1_Witness ==
    /\ Len(queue) = 2
    /\ queue[1].kind = "Query" /\ queue[2].kind = "Command"
    /\ Len(started) >= 1

\* C2: at most one handler execution is in progress at any time; the
\* requests whose handler has started and whose next() has not returned are
\* exactly the one in flight (none once the Mailbox is gone).
C2_OneInFlight ==
    /\ Cardinality(inflight) <= 1
    /\ mbox = "alive" => {e.tx : e \in inflight} = Range(started) \ finished
    /\ Cardinality(Range(started) \ finished) <= 1

\* C2 witness: a handler is running while another request waits in the
\* mailbox and a second caller is suspended behind it.
C2_Witness ==
    /\ inflight /= {}
    /\ queue /= <<>>
    /\ \E c \in Callers : pc[c] \in {"blocked", "permitted"}

\* C3: the mailbox never holds more than capacity envelopes (buffered plus
\* granted slots plus free slots is the capacity), nobody waits while a slot
\* is free, and a suspended call stays suspended, unfailed, until it is
\* granted the slot and enqueued, unless the caller abandons it or the
\* Mailbox is dropped.
C3_Backpressure ==
    /\ [](/\ Len(queue) <= capacity
          /\ mbox = "alive" =>
                /\ Len(queue) + Cardinality(Permitted) + permits = capacity
                /\ permits > 0 => waiters = <<>>
                /\ \A c \in Callers :
                      pc[c] \in {"blocked", "permitted"} =>
                          /\ outcome[c].tag = "None"
                          /\ reqs[cur[c]].caller = c
                          /\ (pc[c] = "blocked") = (c \in Range(waiters)))
    /\ [][\A c \in Callers :
            (pc[c] \in {"blocked", "permitted"} /\ mbox' = "alive") =>
                \/ pc'[c] \in {"blocked", "permitted"} /\ cur'[c] = cur[c]
                \/ /\ pc[c] = "permitted" /\ pc'[c] = "awaiting"
                   /\ queue' = Append(queue, Envelope(reqs[cur[c]].kind,
                                                     reqs[cur[c]].payload, cur[c]))
                \/ outcome'[c].tag = "Abandoned"]_vars

\* C3 witness: a call that was suspended on a full mailbox has been granted
\* the slot freed by next().
C3_Witness ==
    /\ mbox = "alive"
    /\ \E c \in Callers : pc[c] = "permitted"
    /\ Len(queue) < capacity

\* C4: a caller that gets Ok gets the response its handler produced for its
\* own envelope, and no response reaches two callers.
C4_NoMisdelivery ==
    /\ \A c \in Callers :
          outcome[c].tag = "Ok" =>
              /\ outcome[c].from = outcome[c].id
              /\ outcome[c].val = outcome[c].want
    /\ \A c, d \in Callers :
          (c /= d /\ outcome[c].tag = "Ok" /\ outcome[d].tag = "Ok") =>
              outcome[c].from /= outcome[d].from
    /\ \A i \in CallIds : oneshot[i].st = "sent" => oneshot[i].from = i

\* C4 witness: two callers hold Ok for a Command and a Query with
\* different payloads.
C4_Witness ==
    \E c, d \in Callers :
        /\ outcome[c].tag = "Ok" /\ outcome[d].tag = "Ok"
        /\ outcome[c].val[1] = "Command" /\ outcome[d].val[1] = "Query"
        /\ outcome[c].val[2] /= outcome[d].val[2]

\* C5: a next() that finds a request takes exactly the head of the mailbox
\* and leaves the rest in order, invokes that request's handler once, and
\* calls tx.send once on that request's reply channel before it returns.
C5_OneStep ==
    /\ [](/\ \A i \in CallIds : ncalls[i] <= 1 /\ nsends[i] <= ncalls[i]
          /\ \A i \in finished : ncalls[i] = 1 /\ nsends[i] = 1)
    /\ [][started' /= started =>
            /\ queue /= <<>>
            /\ started' = Append(started, Head(queue).tx)
            /\ inflight' = {Head(queue)}
            /\ queue' = Tail(queue)]_vars
    /\ [][finished' /= finished =>
            /\ \E e \in inflight : finished' = finished \cup {e.tx} /\ inflight' = {}
            /\ queue' = queue]_vars

\* C5 witness: one step has completed while other requests stay pending.
C5_Witness ==
    /\ Cardinality(finished) >= 1
    /\ inflight = {}
    /\ Len(queue) = 2

\* C6: next() can return ChannelClosed exactly when no Address is alive and
\* the mailbox is empty; once it has, every request that entered the mailbox
\* has been handled and its step has finished.
C6_ClosedWhenDrained ==
    /\ lastNext = "ChannelClosed" =>
          /\ alive = {}
          /\ started = arrived
          /\ Range(started) = finished
          /\ queue = <<>>
    /\ (mbox = "alive" /\ inflight = {}) =>
          /\ (ENABLED next_closed) = (alive = {} /\ queue = <<>>)
          /\ (ENABLED next_recv) = (queue /= <<>>)

\* C6 witness: next() returned ChannelClosed after handling requests.
C6_Witness ==
    /\ lastNext = "ChannelClosed"
    /\ Len(started) >= 2

\* C7: a step that returns SenderUnavailable leaves the Mailbox alive and the
\* mailbox contents, free slots and suspended senders as they were, and the
\* next pending request can then be received.
C7_SenderUnavailableNonFatal ==
    /\ [][unavailable' /= unavailable =>
            /\ lastNext' = "SenderUnavailable"
            /\ mbox' = "alive"
            /\ queue' = queue /\ permits' = permits /\ waiters' = waiters
            /\ pc' = pc]_vars
    /\ []((mbox = "alive" /\ unavailable /= {} /\ inflight = {} /\ queue /= <<>>)
            => ENABLED next_recv)

\* C7 witness: after a step that returned SenderUnavailable, a request
\* handled later was answered with Ok.
C7_Witness ==
    \E i \in unavailable, c \in Callers :
        /\ outcome[c].tag = "Ok"
        /\ \E m, n \in 1..Len(started) :
              m < n /\ started[m] = i /\ started[n] = outcome[c].id

\* C8: after the Mailbox is dropped, a call that completes returns
\* ChannelClosed unless its response had been sent before the drop, no call
\* is left waiting on something that cannot happen, and a call submitted
\* afterwards returns ChannelClosed at once.
C8_ClosedAfterDrop ==
    /\ [](mbox = "dropped" =>
            \A c \in Callers :
                /\ pc[c] = "awaiting" =>
                      /\ oneshot[cur[c]].st \in {"sent", "txDropped"}
                      /\ oneshot[cur[c]].st = "sent" => cur[c] \in finished
                /\ pc[c] \in {"blocked", "permitted"} => ENABLED SendFail(c))
    /\ [][mbox = "dropped" =>
            \A c \in Callers :
                outcome'[c] /= outcome[c] =>
                    \/ outcome'[c].tag = "ChannelClosed" /\ pc'[c] = "idle"
                    \/ outcome'[c].tag = "Abandoned"
                    \/ /\ outcome'[c].tag = "Ok"
                       /\ outcome'[c].id \in finished \ unavailable]_vars

\* C8 witness: after the drop one caller got ChannelClosed for a request
\* that had entered the mailbox and another for a call made afterwards.
C8_Witness ==
    /\ mbox = "dropped"
    /\ \E c, d \in Callers :
          /\ outcome[c].tag = "ChannelClosed" /\ outcome[c].id \in Range(arrived)
          /\ outcome[d].tag = "ChannelClosed" /\ outcome[d].id \notin Range(arrived)

\* C9: command() and query() never return SenderUnavailable; a completed
\* call returned Ok or ChannelClosed, and only next() reports
\* SenderUnavailable.
C9_CallerNeverSenderUnavailable ==
    /\ \A c \in Callers :
          outcome[c].tag \in {"None", "Ok", "ChannelClosed", "Abandoned"}
    /\ \A i \in unavailable : \A c \in Callers :
          outcome[c].id = i => outcome[c].tag = "Abandoned"

\* C9 witness: next() reported SenderUnavailable for a request whose caller
\* abandoned it, and another caller observed ChannelClosed.
C9_Witness ==
    /\ lastNext = "SenderUnavailable"
    /\ \E c \in Callers : outcome[c].tag = "ChannelClosed"
    /\ \E c \in Callers : outcome[c].tag = "Abandoned" /\ outcome[c].id \in unavailable

\* C10: under DupeStrategy::Drop the record stored at a key is the first one
\* persisted with that key, keys never persisted hold nothing, and a
\* persist_status on a key that already holds a record leaves the store as
\* it was.
C10_DropKeepsFirst ==
    /\ [](dupe_strategy = "Drop" =>
            \A k \in Keys :
                Stored(k) = IF persisted[k] = <<>> THEN None ELSE persisted[k][1])
    /\ [][dupe_strategy = "Drop" =>
            \A k \in Keys :
                (persisted'[k] /= persisted[k] /\ persisted[k] /= <<>>) =>
                    statuses' = statuses]_vars

\* C10 witness: under Drop two different records were persisted with one
\* key and the first is the one stored.
C10_Witness ==
    /\ dupe_strategy = "Drop"
    /\ \E k \in Keys :
          /\ Len(persisted[k]) >= 2
          /\ persisted[k][2] /= persisted[k][1]
          /\ Stored(k) = persisted[k][1]

\* the store holds a record under key k
IsStored(k) == k[1] \in DOMAIN statuses /\ k[2] \in DOMAIN statuses[k[1]]

\* the left fold of Status::merge over a non-empty sequence of records
RECURSIVE MergeFold(_)
MergeFold(seq) ==
    IF Len(seq) = 1 THEN seq[1]
    ELSE merge(MergeFold(SubSeq(seq, 1, Len(seq) - 1)), seq[Len(seq)])

\* C11: under DupeStrategy::Overwrite the record stored at a key is, field
\* for field, the last one persisted with that key, and keys never persisted
\* hold nothing.
C11_OverwriteKeepsLast ==
    dupe_strategy = "Overwrite" =>
        \A k \in Keys :
            Stored(k) = IF persisted[k] = <<>> THEN None
                        ELSE persisted[k][Len(persisted[k])]

\* C11 witness: under Overwrite a record with optional fields was followed,
\* at the same key, by one without them, and the stored record has none.
C11_Witness ==
    /\ dupe_strategy = "Overwrite"
    /\ \E k \in Keys :
          /\ Len(persisted[k]) >= 2
          /\ persisted[k][1].position /= None
          /\ persisted[k][Len(persisted[k])].position = None
          /\ IsStored(k) /\ Stored(k).position = None

\* C12: under DupeStrategy::Merge the record stored at a key is the left
\* fold of Status::merge over the records persisted with that key in arrival
\* order, starting from the first record as it was given.
C12_MergeFolds ==
    dupe_strategy = "Merge" =>
        \A k \in Keys :
            Stored(k) = IF persisted[k] = <<>> THEN None ELSE MergeFold(persisted[k])

\* C12 witness: under Merge three records met at one key and the stored
\* record equals none of them.
C12_Witness ==
    /\ dupe_strategy = "Merge"
    /\ \E k \in Keys :
          /\ Len(persisted[k]) = 3
          /\ IsStored(k)
          /\ \A i \in 1..3 : Stored(k) /= persisted[k][i]

\* every record the store holds, whatever key it sits under
AllStored == {statuses[s][t] : <<s, t>> \in {k \in Keys : IsStored(k)}}

\* C17: under every DupeStrategy and after any sequence of persist_status
\* calls, the record stored under key (s, t) has source_id = s and
\* timestamp = t, no two stored records carry the same (source_id,
\* timestamp), and nothing is stored outside the keys that were persisted.
C17_UniquelyAddressed ==
    /\ \A s \in DOMAIN statuses : \A t \in DOMAIN statuses[s] :
          /\ statuses[s][t].source_id = s
          /\ statuses[s][t].timestamp = t
          /\ <<s, t>> \in Keys /\ persisted[<<s, t>>] /= <<>>
    /\ \A k \in Keys :
          Cardinality({r \in AllStored : r.source_id = k[1] /\ r.timestamp = k[2]}) <= 1

\* C17 witness: two different records were persisted with one key while
\* another key is stored too.
C17_Witness ==
    \E k1, k2 \in Keys :
        /\ k1 /= k2
        /\ Len(persisted[k1]) >= 2
        /\ persisted[k1][1] /= persisted[k1][2]
        /\ IsStored(k1) /\ IsStored(k2)

\* the optional fields a Status sets
SetFields(st) ==
    {f \in {"position", "bearing", "speed"} :
        CASE f = "position" -> st.position /= None
          [] f = "bearing" -> st.bearing /= None
          [] f = "speed" -> st.speed /= None}

\* C13: for any two Status values a and b, a.merge(b) has a's source_id and
\* timestamp whatever b's are, and each of position, bearing and speed is b's
\* value when b sets it and a's value otherwise.
C13_MergeFieldwise ==
    merge_out /= <<>> =>
        LET a == merge_self
            b == merge_rhs
            r == merge_out[1]
        IN /\ r.source_id = a.source_id
           /\ r.timestamp = a.timestamp
           /\ r.position = (IF "position" \in SetFields(b) THEN b.position ELSE a.position)
           /\ r.bearing = (IF "bearing" \in SetFields(b) THEN b.bearing ELSE a.bearing)
           /\ r.speed = (IF "speed" \in SetFields(b) THEN b.speed ELSE a.speed)

\* C13 witness: merge was applied to two values of different keys that both
\* set the position, to different values, while only a sets the speed.
C13_Witness ==
    /\ merge_out /= <<>>
    /\ merge_self.source_id /= merge_rhs.source_id
    /\ merge_self.timestamp /= merge_rhs.timestamp
    /\ merge_self.position /= None /\ merge_rhs.position /= None
    /\ merge_self.position /= merge_rhs.position
    /\ merge_self.speed /= None /\ merge_rhs.speed = None
    /\ merge_out[1].position = merge_rhs.position
    /\ merge_out[1].speed = merge_self.speed

\* C14: when a and b have the same source_id and timestamp and no optional
\* field is set by both, a.merge(b) and b.merge(a) are equal field by field;
\* a fully populated value merged with one that sets nothing gives the fully
\* populated value in either order.
C14_MergeOrderIndependent ==
    (/\ merge_out /= <<>>
     /\ merge_self.source_id = merge_rhs.source_id
     /\ merge_self.timestamp = merge_rhs.timestamp
     /\ SetFields(merge_self) \cap SetFields(merge_rhs) = {})
    => /\ merge_out[1] = merge_out[2]
       /\ (Cardinality(SetFields(merge_self)) = 3 /\ SetFields(merge_rhs) = {})
              => (merge_out[1] = merge_self /\ merge_out[2] = merge_self)

\* C14 witness: merge was applied in both orders to two values of one key
\* that set different optional fields, and both results carry both fields.
C14_Witness ==
    /\ merge_out /= <<>>
    /\ merge_self.source_id = merge_rhs.source_id
    /\ merge_self.timestamp = merge_rhs.timestamp
    /\ SetFields(merge_self) = {"position"}
    /\ SetFields(merge_rhs) = {"bearing"}
    /\ SetFields(merge_out[1]) = {"position", "bearing"}
    /\ merge_out[2] = merge_out[1]

\* the source has had a record persisted
EverPersisted(s) == \E t \in Timestamps : persisted[<<s, t>>] /= <<>>

\* the records of source s that the store holds within a range of timestamps
StoredInRange(s, timestamps) ==
    IF s \in DOMAIN statuses
    THEN {statuses[s][t] : t \in {x \in DOMAIN statuses[s] : Contains(timestamps, x)}}
    ELSE {}

\* C15: get_statuses(source_id, range) returns Ok with exactly the stored
\* records of that source whose timestamp lies in the range, bounds honoured
\* as supplied, each once and in ascending timestamp order, and no record of
\* another source; with records at 10, 20 and 30, [15, 30) gives the record
\* at 20 and [10, 30] gives those at 10, 20, 30 in that order.
C15_RangeQueryExact ==
    returned.call = "get_statuses" =>
        /\ returned.result = "Ok"
        /\ \A i \in 1..Len(returned.out) :
              /\ returned.out[i].source_id = returned.source_id
              /\ Contains(returned.timestamps, returned.out[i].timestamp)
        /\ \A i, j \in 1..Len(returned.out) :
              i < j => returned.out[i].timestamp < returned.out[j].timestamp
        /\ {returned.out[i] : i \in 1..Len(returned.out)}
              = StoredInRange(returned.source_id, returned.timestamps)

\* C15 witness: a source holds records at 10, 20 and 30, and a query for the
\* range from 30 inclusive to 10 inclusive did not return.
C15_Witness ==
    /\ returned.call = "get_statuses"
    /\ returned.source_id \in DOMAIN statuses
    /\ DOMAIN statuses[returned.source_id] = {10, 20, 30}
    /\ returned.timestamps = <<Included(30), Included(10)>>
    /\ returned.result = "panic"

\* C16: get_statuses for a source that was never persisted returns Ok with
\* an empty sequence for every range of timestamps, and leaves the store as
\* it was, with no entry for that source.
C16_UnknownSourceEmpty ==
    /\ [](returned.call = "get_statuses" /\ ~EverPersisted(returned.source_id)
            => /\ returned.result = "Ok"
               /\ returned.out = <<>>
               /\ returned.source_id \notin DOMAIN statuses)
    /\ [][returned'.call = "get_statuses" /\ persisted' = persisted
            /\ ~EverPersisted(returned'.source_id)
            => statuses' = statuses]_vars

\* C16 witness: the other source holds a record, and a query for a source
\* never persisted, over a range that starts after it ends, returned Ok.
C16_Witness ==
    /\ returned.call = "get_statuses"
    /\ ~EverPersisted(returned.source_id)
    /\ statuses /= EmptyMap
    /\ returned.timestamps = <<Included(30), Excluded(10)>>
    /\ returned.result = "Ok"
    /\ returned.out = <<>>

\* the indexes of the well-formed frames among the first n of connection c,
\* in arrival order
WellFormedUpTo(c, n) ==
    LET ok(i) == sent[c][i]
    IN SelectSeq([i \in 1..n |-> i], ok)

\* C18: on each stream connection the records are handed to the handler in
\* the order their frames arrived, no frame is read while a handler call is
\* outstanding, and so at most one forwarded record is in flight.
C18_InOrderOneAtATime ==
    /\ [](\A c \in Conns :
            /\ nread[c] <= Len(sent[c])
            /\ forwarded[c] = WellFormedUpTo(c, nread[c])
            /\ Len(forwarded[c]) - nreturned[c] \in {0, 1})
    /\ [][\A c \in Conns :
            nread'[c] /= nread[c] => nreturned[c] = Len(forwarded[c])]_vars

\* C18 witness: a connection delivered two well-formed frames; the first
\* record's handler call has returned and the second is in flight.
C18_Witness ==
    \E c \in Conns :
        /\ Len(sent[c]) >= 2 /\ sent[c][1] /\ sent[c][2]
        /\ forwarded[c] = <<1, 2>>
        /\ nreturned[c] = 1
        /\ conn[c] = "handling"

\* what a connection that ended leaves behind: its task takes no further
\* step, the accept loop still accepts, and every other connection can take
\* whichever step it is at
EndedAlone(c) ==
    /\ ~ENABLED read_frame(c)
    /\ ~ENABLED handler_return(c, "Ok")
    /\ ~ENABLED read_timeout(c)
    /\ listener = "accepting"
    /\ \A d \in Conns \ {c} :
          /\ conn[d] = "pending" => ENABLED accept(d)
          /\ (conn[d] = "reading" /\ nread[d] < Len(sent[d])) => ENABLED read_frame(d)
          /\ conn[d] = "handling" => ENABLED handler_return(d, "Ok")

\* a step touches nothing of the connections other than c
OthersUntouched(c) ==
    \A d \in Conns \ {c} :
        /\ conn'[d] = conn[d]
        /\ sent'[d] = sent[d]
        /\ nread'[d] = nread[d]
        /\ forwarded'[d] = forwarded[d]
        /\ nreturned'[d] = nreturned[d]

\* C19: a read timeout ends a connection only when no complete frame is
\* waiting and every record decoded on it has been forwarded and its handler
\* call has returned; the step changes nothing of the accept loop or of the
\* other connections, the timed-out connection never reads or forwards
\* again, and the others go on accepting, reading and forwarding.
C19_TimeoutEndsOnlyThatConnection ==
    /\ [][\A c \in Conns :
            (conn[c] /= "timed_out" /\ conn'[c] = "timed_out") =>
                /\ conn[c] = "reading"
                /\ nread[c] = Len(sent[c])
                /\ forwarded[c] = WellFormedUpTo(c, Len(sent[c]))
                /\ nreturned[c] = Len(forwarded[c])
                /\ forwarded'[c] = forwarded[c]
                /\ listener' = "accepting"
                /\ OthersUntouched(c)]_vars
    /\ [](\A c \in Conns : conn[c] = "timed_out" => EndedAlone(c))
    /\ [][\A c \in Conns :
            conn[c] = "timed_out" =>
                /\ conn'[c] = "timed_out"
                /\ forwarded'[c] = forwarded[c]
                /\ nread'[c] = nread[c]]_vars

\* C19 witness: a connection timed out after its one record was forwarded
\* and handled, while another connection has a frame ready to read.
C19_Witness ==
    \E c, d \in Conns :
        /\ c /= d
        /\ conn[c] = "timed_out"
        /\ forwarded[c] = <<1>> /\ nreturned[c] = 1
        /\ conn[d] = "reading" /\ nread[d] < Len(sent[d])
        /\ Len(forwarded[d]) >= 1

\* C20: reading a malformed frame ends that connection's task and only it:
\* nothing is forwarded for the frame, every earlier frame of the connection
\* was well-formed and its record forwarded and handled, the accept loop and
\* the other connections are untouched and go on; the failed connection
\* never reads or forwards again, so no record is ever forwarded for a
\* malformed frame or for a frame that arrived after one.
C20_MalformedEndsOnlyThatConnection ==
    /\ [][\A c \in Conns :
            (nread'[c] = nread[c] + 1 /\ ~sent[c][nread[c] + 1]) =>
                /\ conn'[c] = "failed"
                /\ forwarded'[c] = forwarded[c]
                /\ forwarded[c] = [i \in 1..nread[c] |-> i]
                /\ nreturned[c] = nread[c]
                /\ listener' = "accepting"
                /\ OthersUntouched(c)]_vars
    /\ [](\A c \in Conns : conn[c] = "failed" => EndedAlone(c))
    /\ [][\A c \in Conns :
            conn[c] = "failed" =>
                /\ conn'[c] = "failed"
                /\ forwarded'[c] = forwarded[c]
                /\ nread'[c] = nread[c]]_vars
    /\ [](\A c \in Conns : \A k \in 1..Len(forwarded[c]) :
            \A j \in 1..forwarded[c][k] : sent[c][j])

\* C20 witness: a connection delivered a well-formed, a malformed and
\* another well-formed frame; it failed with only the first record
\* forwarded, while another connection that has forwarded a record has a
\* frame ready to read.
C20_Witness ==
    \E c, d \in Conns :
        /\ c /= d
        /\ sent[c] = <<TRUE, FALSE, TRUE>>
        /\ conn[c] = "failed"
        /\ forwarded[c] = <<1>> /\ nreturned[c] = 1 /\ nread[c] = 2
        /\ conn[d] = "reading" /\ nread[d] < Len(sent[d])
        /\ Len(forwarded[d]) >= 1

\* C21: listen_tcp gives up only when bind fails: then it returns the error,
\* no accept loop runs and no connection is ever accepted or served; once
\* bind has succeeded the accept loop never ends, an accept error loses only
\* that connection attempt, and every later attempt can still be accepted
\* into a task of its own.
C21_ListenerExitsOnlyOnBindFailure ==
    /\ [](listener \in {"starting", "accepting", "bind_failed"})
    /\ [](listener \in {"starting", "bind_failed"} =>
            \A c \in Conns :
                /\ conn[c] = "pending"
                /\ forwarded[c] = <<>>
                /\ ~ENABLED accept(c))
    /\ [][listener = "bind_failed" => listener' = "bind_failed"]_vars
    /\ [][listener = "accepting" => listener' = "accepting"]_vars
    /\ [][\A c \in Conns :
            (conn[c] = "pending" /\ conn'[c] = "aborted") =>
                /\ listener' = "accepting"
                /\ forwarded' = forwarded
                /\ OthersUntouched(c)]_vars
    /\ [](listener = "accepting" =>
            \A d \in Conns : conn[d] = "pending" => ENABLED accept(d))
    /\ [][\A c \in Conns :
            (conn[c] = "pending" /\ conn'[c] = "reading") => OthersUntouched(c)]_vars

\* C21 witness: one connection attempt failed in accept, and another
\* connection was accepted and has had a record forwarded.
C21_Witness ==
    \E c, d \in Conns :
        /\ conn[c] = "aborted"
        /\ conn[d] \in {"reading", "handling"}
        /\ Len(forwarded[d]) >= 1
        /\ listener = "accepting"

\* the datagram is, as sent, exactly one encoded Status
IsRecord(d) == d.record > 0 /\ d.record = d.len

\* the datagram was received and what was received decoded
Decoded(d) == d.os = "Ok" /\ from_slice(d, recv_from(d)) = "Ok"

\* the indexes of the first n datagrams that were received and decoded
DecodedUpTo(n) ==
    LET good(i) == Decoded(dgrams[i])
    IN SelectSeq([i \in 1..n |-> i], good)

\* C22: the datagram listener forwards at most one Status per datagram, in
\* order of receipt; a datagram that fails to decode and a receive that
\* fails forward nothing and leave the loop receiving, so the datagrams
\* after it are received and forwarded as if it had not arrived.
C22_BadDatagramsDropped ==
    /\ [](/\ udp_forwarded = DecodedUpTo(Len(dgrams))
          /\ \A i, j \in 1..Len(udp_forwarded) :
                i < j => udp_forwarded[i] < udp_forwarded[j])
    /\ [][(Len(dgrams') = Len(dgrams) + 1 /\ ~Decoded(dgrams'[Len(dgrams')])) =>
            /\ udp' = "receiving"
            /\ udp_forwarded' = udp_forwarded
            /\ udp_results' = udp_results]_vars
    /\ [](udp = "receiving" /\ Len(dgrams) < MaxDatagrams =>
            \A d \in Datagrams : ENABLED udp_recv(d))

\* C22 witness: a garbage datagram and a failed receive were followed by a
\* valid datagram, and only that one was forwarded.
C22_Witness ==
    /\ Len(dgrams) = 3
    /\ dgrams[1] = Datagram(100, 0, "Ok")
    /\ dgrams[2] = Datagram(100, 100, "Err")
    /\ dgrams[3] = Datagram(100, 100, "Ok")
    /\ udp_forwarded = <<3>>

\* C29: a datagram longer than the 128-byte receive buffer, or one that is
\* not a valid record, is never forwarded and never ends the listener task.
C29_OversizeAndGarbageRejected ==
    /\ [](\A k \in 1..Len(udp_forwarded) :
            /\ dgrams[udp_forwarded[k]].len <= RecvBufLen
            /\ IsRecord(dgrams[udp_forwarded[k]]))
    /\ [][(Len(dgrams') = Len(dgrams) + 1
            /\ (dgrams'[Len(dgrams')].len > RecvBufLen \/ ~IsRecord(dgrams'[Len(dgrams')])))
            => udp' = "receiving"]_vars

\* C29 witness: a datagram of 129 bytes whose first 128 bytes are a complete
\* Status encoding was cut to the buffer and its Status forwarded.
C29_Witness ==
    \E k \in 1..Len(udp_forwarded) :
        dgrams[udp_forwarded[k]] = Datagram(129, 128, "Ok")

\* the last handler.run call of the datagram listener returned an error
UdpForwardFailed ==
    udp_results /= <<>> /\ udp_results[Len(udp_results)] = "Err"

\* the stream listener is as able to go on as it was
StreamListenerGoesOn ==
    /\ listener = "accepting"
    /\ \A c \in Conns :
          /\ conn[c] = "pending" => ENABLED accept(c)
          /\ (conn[c] = "reading" /\ nread[c] < Len(sent[c])) => ENABLED read_frame(c)

\* C23 as stated: after a forward of the datagram listener has failed, the
\* process is not brought down and the receive loop goes on reading the
\* following datagrams.
C23_ForwardFailureLoopContinues ==
    UdpForwardFailed => (StreamListenerGoesOn /\ udp = "receiving")

\* C23 amended: a failed forward of the datagram listener panics its task
\* and nothing else: the failure is on record as an error, the task never
\* receives or forwards another datagram, and the stream listener and its
\* connections are untouched and go on.
C23_ForwardFailureEndsUdpTask ==
    /\ [][(udp_results' /= udp_results /\ udp_results'[Len(udp_results')] = "Err") =>
            /\ udp' = "panicked"
            /\ UNCHANGED ingestVars]_vars
    /\ [](udp = "panicked" =>
            /\ UdpForwardFailed
            /\ \A d \in Datagrams : ~ENABLED udp_recv(d)
            /\ ~ENABLED udp_handler_return("Ok")
            /\ StreamListenerGoesOn)
    /\ [][udp = "panicked" => UNCHANGED udpVars]_vars

\* C23 witness: the datagram listener's task has panicked on a failed
\* forward with datagrams still to come, while a stream connection that
\* has forwarded a record is reading.
C23_Witness ==
    /\ udp = "panicked"
    /\ UdpForwardFailed
    /\ Len(dgrams) < MaxDatagrams
    /\ \E c \in Conns : conn[c] = "reading" /\ Len(forwarded[c]) >= 1

\* C24: after the first failed forward each listener stops: the stream
\* listener accepts no further connection and forwards nothing more, and
\* the datagram listener receives and forwards nothing more.
C24_ForwardFailureStopsListeners ==
    /\ []((\E c \in Conns : conn[c] = "panicked") =>
            \A d \in Conns : ~ENABLED accept(d))
    /\ [][(\E c \in Conns : conn[c] = "panicked") => forwarded' = forwarded]_vars
    /\ [](udp = "panicked" => \A d \in Datagrams : ~ENABLED udp_recv(d))
    /\ [][udp = "panicked" => (dgrams' = dgrams /\ udp_forwarded' = udp_forwarded)]_vars

\* C24 witness: a forward failed on one stream connection, after which the
\* accept loop is still accepting and the other connection, not yet
\* accepted, has a frame waiting.
C24_Witness ==
    \E c, d \in Conns :
        /\ conn[c] = "panicked"
        /\ conn[d] = "pending"
        /\ Len(sent[d]) >= 1
        /\ listener = "accepting"
        /\ ENABLED accept(d)

\* what the bytes in a buffer are to the wire format
ProperPrefixOfItem(buf) ==
    \E it \in Items : IsPrefix(buf, Encode(it)) /\ buf /= Encode(it)
StartsWithItem(buf, it) == IsPrefix(Encode(it), buf)
CannotStartItem(buf) ==
    \A it \in Items : ~IsPrefix(buf, Encode(it)) /\ ~IsPrefix(Encode(it), buf)

RECURSIVE DecodeAll(_)
DecodeAll(buf) ==
    LET d == decode(buf)
    IN IF d.result = "Some" THEN <<d.item>> \o DecodeAll(d.src) ELSE <<>>

RECURSIVE Concat(_)
Concat(rs) == IF rs = <<>> THEN <<>> ELSE Encode(rs[1]) \o Concat(SubSeq(rs, 2, Len(rs)))
ItemSeqs == UNION {[1..n -> Items] : n \in 0..(MaxBytes \div ItemLen)}

\* C25: however the bytes of a stream are cut into reads, decoding them read
\* by read yields the items that decoding the whole stream from one buffer
\* yields, in the same order: at every moment a prefix of them, and all of
\* them once the decoder has failed or has seen every byte and wants more;
\* for a stream that is a concatenation of encoded records these are the
\* records.
C25_ChunkingIndependent ==
    /\ IsPrefix(items, DecodeAll(wire))
    /\ (dec = "failed" \/ (dec = "waiting" /\ nfed = Len(wire))) =>
          items = DecodeAll(wire)
    /\ \A rs \in ItemSeqs : wire = Concat(rs) => DecodeAll(wire) = rs

\* C25 witness: two different records arrived one byte per read and both
\* have been decoded.
C25_Witness ==
    /\ maxchunk = 1
    /\ Len(wire) = 2 * ItemLen
    /\ nfed = Len(wire)
    /\ dec = "waiting"
    /\ Len(items) = 2
    /\ items[1] /= items[2]
    /\ wire = Concat(items)

\* the envelopes the channel and the mailbox hold
Enqueued == Range(queue) \cup inflight
AbandonedInFlight(env) == oneshot[env.tx].st = "rxDropped"

\* C30: a request that is in the channel cannot be taken back.  A caller
\* that abandons its call after the envelope was enqueued leaves the queue
\* and the running handlers as they were; the envelope stays with the
\* mailbox until next() takes it out to invoke its handler, once; and when
\* that handler returns its effect on the owned state is applied and next()
\* reports SenderUnavailable for that step.
C30_EnqueuedRequestNotCancellable ==
    /\ [](\A i \in CallIds : oneshot[i].st = "rxDropped" =>
            \E env \in Enqueued : env.tx = i)
    /\ [][/\ \A c \in Callers :
              (pc[c] = "awaiting" /\ outcome'[c].tag = "Abandoned") =>
                  (queue' = queue /\ inflight' = inflight /\ owned' = owned)
          /\ \A env \in Range(queue) :
              (AbandonedInFlight(env) /\ env \notin Range(queue') /\ mbox' = "alive") =>
                  (env \in inflight' /\ ncalls'[env.tx] = 1)
          /\ \A env \in inflight :
              (AbandonedInFlight(env) /\ env.tx \in finished' /\ env.tx \notin finished) =>
                  /\ env.kind = "Command" => env.payload \in owned'
                  /\ lastNext' = "SenderUnavailable"
                  /\ env.tx \in unavailable'
                  /\ ncalls'[env.tx] = 1]_vars

\* C30 witness: the only handler that has finished is that of a command
\* whose caller abandoned it while it was still in the queue; the
\* command's effect is in the owned state and next() returned
\* SenderUnavailable.
C30_Witness ==
    /\ lastNext = "SenderUnavailable"
    /\ owned /= {}
    /\ \E c \in Callers :
          /\ outcome[c].tag = "Abandoned"
          /\ finished = {outcome[c].id}
          /\ unavailable = {outcome[c].id}
          /\ ncalls[outcome[c].id] = 1

\* C26: a storage error the handler returns reaches the caller: command()
\* returns the handler's response unchanged, and submit_status does not
\* answer with success when that response is a storage error.
C26_StorageErrorSurfaced ==
    \A c \in Callers : outcome[c].tag = "Ok" =>
        /\ outcome[c].val = outcome[c].want
        /\ IsStorageErr(outcome[c].val) => http_code[outcome[c].id] /= "OK"

\* C26 witness: command() returned Ok(Err(storage error)) to submit_status,
\* unchanged, and the request was answered with StatusCode::OK.
C26_Witness ==
    \E c \in Callers :
        /\ outcome[c].tag = "Ok"
        /\ outcome[c].val = outcome[c].want
        /\ IsStorageErr(outcome[c].val)
        /\ http_code[outcome[c].id] = "OK"

Completed(c) == outcome[c].tag \in {"Ok", "ChannelClosed"}

\* C27: end to end, a valid record delivered in one datagram is forwarded
\* as a PersistStatus command and stored, and a GetStatuses query submitted
\* after it through the dispatch actor succeeds with that record: the
\* forward of the datagram returns Ok, the command's effect is in the
\* actor's state, and the later query returns Ok.
C27_DatagramEndToEnd ==
    /\ udp_results /= <<>> => udp_results[1] = "Ok"
    /\ (/\ Completed(UdpCaller)
        /\ Completed(QueryCaller)
        /\ outcome[QueryCaller].id > outcome[UdpCaller].id) =>
            /\ outcome[UdpCaller].tag = "Ok"
            /\ outcome[QueryCaller].tag = "Ok"
            /\ owned /= {}

\* C27 witness: the datagram's command reached on_command, which panicked;
\* the forward failed with ChannelClosed and took the datagram listener's
\* task down, nothing was stored, and the query submitted afterwards
\* failed with ChannelClosed as well.
C27_Witness ==
    /\ Len(udp_forwarded) = 1
    /\ udp_results = <<"Err">>
    /\ udp = "panicked"
    /\ mbox = "dropped"
    /\ started /= <<>>
    /\ owned = {}
    /\ outcome[UdpCaller].tag = "ChannelClosed"
    /\ outcome[QueryCaller].tag = "ChannelClosed"
    /\ outcome[QueryCaller].id > outcome[UdpCaller].id

\* the last of the values x, y, z that is set, z being the latest
LastSet(x, y, z) == IF z /= None THEN z ELSE IF y /= None THEN y ELSE x

\* C32: Status::merge is associative: for all a, b, c the value of
\* a.merge(b).merge(c) equals that of a.merge(b.merge(c)) in every field
\* (source_id and timestamp are a's, each optional field is the last one
\* set among a, b, c), so the record that persist_status calls for a, b, c
\* leave at a key under DupeStrategy::Merge is the same however the merges
\* are grouped.
C32_MergeAssociative ==
    Len(merge_out) = 3 =>
        LET a == merge_self
            b == merge_rhs
            c == merge_out[1]
            left == merge_out[2]
            right == merge_out[3]
        IN /\ left = right
           /\ left.source_id = a.source_id
           /\ left.timestamp = a.timestamp
           /\ left.position = LastSet(a.position, b.position, c.position)
           /\ left.bearing = LastSet(a.bearing, b.bearing, c.bearing)
           /\ left.speed = LastSet(a.speed, b.speed, c.speed)
           /\ (a.timestamp = b.timestamp /\ b.timestamp = c.timestamp) =>
                 InsertMerge(InsertMerge(Put(EmptyMap, a.timestamp, a), b), c)[a.timestamp]
                     = right

\* C32 witness: three records of one key were merged, the first and the
\* last setting different values for every field and the middle one setting
\* only the bearing; both groupings gave the last one's fields.
C32_Witness ==
    /\ Len(merge_out) = 3
    /\ merge_self = Status(1, 10, <<1, 1, 1>>)
    /\ merge_rhs = Status(1, 10, <<None, 2, None>>)
    /\ merge_out[1] = Status(1, 10, <<2, 2, 2>>)
    /\ merge_out[2] = merge_out[3]
    /\ merge_out[2].position = 2

\* the call i of caller c has returned Ok with its handler's response
ReturnedOk(c, i) ==
    /\ outcome[c].id = i
    /\ outcome[c].tag = "Ok"
    /\ outcome[c].val = outcome[c].want
    /\ outcome[c].from = i
GaveUp(c, i) == outcome[c].id = i /\ outcome[c].tag = "Abandoned"

\* C31: while the owner keeps calling Mailbox::next and every handler
\* returns, every call of command() or query() that its caller does not
\* abandon eventually returns Ok with the response of its own handler
\* invocation, whether it found a free slot or was suspended on a full
\* mailbox; no call returns an error and no caller waits forever.
C31_EveryCallReturnsOk ==
    /\ [](\A c \in Callers : outcome[c].tag \in {"None", "Ok", "Abandoned"})
    /\ [][\A c \in Callers : (pc[c] /= "idle" /\ pc'[c] = "idle") =>
              \E i \in CallIds : i = cur[c] /\ (ReturnedOk(c, i)' \/ GaveUp(c, i)')]_vars
    /\ \A c \in Callers : (pc[c] /= "idle") ~> (pc[c] = "idle")

\* C31 witness: on a mailbox of capacity one the first two calls, made by
\* different callers, were handled in the order they entered the mailbox
\* and both returned Ok with the responses of their own handlers.
C31_Witness ==
    \E c, d \in Callers :
        /\ c /= d
        /\ capacity = 1
        /\ ReturnedOk(d, 1)
        /\ ReturnedOk(c, 2)
        /\ arrived = <<1, 2>>
        /\ finished = {1, 2}
        /\ lastNext = "Ok"
====
